---- MODULE Spec2Model ----
(***************************************************************************)
(* Model of the database middleware: the raw-statement service             *)
(* (src/main.py, FastAPI + psycopg2) and the phrase service                *)
(* (src/agent-db-middleware/main.py, Flask + pymysql).                     *)
(*                                                                         *)
(* Text is a sequence of one-character strings.  The CJK characters of     *)
(* the phrase patterns are written by their pinyin names:                  *)
(*   sheng shi xian qu  = the region class  [U+7701 U+5E02 U+53BF U+533A]  *)
(*   di                 = U+5730  (di qu   = the "region" suffix)          *)
(*   nian               = U+5E74  (year)     jin = U+8FD1  (recent)        *)
(*   xiang mu           = U+9879 U+76EE  (project)                         *)
(*   lei xing           = U+7C7B U+578B  (type)                            *)
(*   chun               = U+6625  (any other CJK character)                *)
(***************************************************************************)
EXTENDS Integers, Sequences, FiniteSets, TLC

VARIABLES
    API_KEY,    \* src/main.py:34, the configured key (None when unset)
    req,        \* per request slot: the request, its handler's locals, its response
    nl_text,    \* the phrase given to parse_nl_to_sql (translator specification)
    now_year,   \* datetime.datetime.now().year at the time of the parse
    parsed,     \* the result of parse_nl_to_sql(nl_text), once applied
    DB_ENV,     \* the DB_* environment variables that are set (os.getenv)
    conns,      \* the connection objects made by connect(), by identity
    arg,        \* the argument of the function applied (function specifications)
    returned    \* its result, once applied

config == <<API_KEY, DB_ENV>>
translator == <<nl_text, now_year, parsed>>
applied == <<arg, returned>>

vars == <<API_KEY, req, nl_text, now_year, parsed, DB_ENV, conns, arg, returned>>

(***************************************************************************)
(* Bounds                                                                  *)
(***************************************************************************)
NumReqs == 1
MaxRows == 2
MaxFrags == 4
MaxPieces == 3
MaxMagnitude == 4

Reqs == 1..NumReqs

\* Python's None, where a string is expected
NoValue == "<None>"

Truthy(s) == s # NoValue /\ s # ""

(***************************************************************************)
(* Characters and strings                                                  *)
(***************************************************************************)
Whitespace == {" ", "\t", "\n"}

RECURSIVE LStrip(_)
LStrip(s) == IF s # <<>> /\ Head(s) \in Whitespace THEN LStrip(Tail(s)) ELSE s

RECURSIVE RStrip(_)
RStrip(s) ==
    IF s # <<>> /\ s[Len(s)] \in Whitespace THEN RStrip(SubSeq(s, 1, Len(s) - 1)) ELSE s

\* str.strip()
Strip(s) == RStrip(LStrip(s))

LowerCase ==
    <<"a", "b", "c", "d", "e", "f", "g", "h", "i", "j", "k", "l", "m",
      "n", "o", "p", "q", "r", "s", "t", "u", "v", "w", "x", "y", "z">>

UpperCase ==
    <<"A", "B", "C", "D", "E", "F", "G", "H", "I", "J", "K", "L", "M",
      "N", "O", "P", "Q", "R", "S", "T", "U", "V", "W", "X", "Y", "Z">>

\* str.upper(), one character
UpperChar(c) ==
    IF \E i \in DOMAIN LowerCase : LowerCase[i] = c
    THEN UpperCase[CHOOSE i \in DOMAIN LowerCase : LowerCase[i] = c]
    ELSE c

Upper(s) == [i \in 1..Len(s) |-> UpperChar(s[i])]

\* str.startswith(prefix)
StartsWith(s, prefix) ==
    Len(s) >= Len(prefix) /\ SubSeq(s, 1, Len(prefix)) = prefix

(***************************************************************************)
(* Statement classification (src/main.py)                                  *)
(***************************************************************************)
SELECT == <<"S", "E", "L", "E", "C", "T">>

is_select_query(sql) == StartsWith(Upper(Strip(sql)), SELECT)

(***************************************************************************)
(* Backend values and the result formatting (src/main.py)                  *)
(*                                                                         *)
(* A value is [type, form, v]: its Python type, the form of its text when  *)
(* it is a str produced by the serializer ("native" otherwise), and an     *)
(* integer standing for its magnitude.                                     *)
(***************************************************************************)
Native(type, v) == [type |-> type, form |-> "native", v |-> v]

\* isinstance(value, cls): datetime.datetime is a subclass of datetime.date
IsInstance(value, cls) ==
    \/ value.type = cls
    \/ value.type = "datetime" /\ cls = "date"

\* serialize_value with a Decimal turned into its text (not the code).
serialize_value_decimal_as_str(value) ==
    IF value.type = "Decimal"
    THEN [type |-> "str", form |-> "str-decimal", v |-> value.v]
    ELSE IF value.type = "NoneType" \/ value.type \notin
                {"datetime", "date", "time", "timedelta", "bytes"}
        THEN value
    ELSE [type |-> "str",
          form |-> CASE value.type = "datetime" -> "iso-datetime"
                     [] value.type = "date" -> "iso-date"
                     [] value.type = "time" -> "iso-time"
                     [] value.type = "timedelta" -> "str-timedelta"
                     [] value.type = "bytes" -> "base64",
          v |-> value.v]

serialize_value(value) ==
    IF value.type = "NoneType" THEN value
    ELSE IF IsInstance(value, "datetime")
        THEN [type |-> "str", form |-> "iso-datetime", v |-> value.v]
    ELSE IF IsInstance(value, "date")
        THEN [type |-> "str", form |-> "iso-date", v |-> value.v]
    ELSE IF IsInstance(value, "time")
        THEN [type |-> "str", form |-> "iso-time", v |-> value.v]
    ELSE IF IsInstance(value, "timedelta")
        THEN [type |-> "str", form |-> "str-timedelta", v |-> value.v]
    ELSE IF IsInstance(value, "Decimal")
        THEN [type |-> "float", form |-> "native", v |-> value.v]
    ELSE IF IsInstance(value, "bytes")
        THEN [type |-> "str", form |-> "base64", v |-> value.v]
    ELSE value

format_row(row) == [key \in DOMAIN row |-> serialize_value(row[key])]

format_response_data(data) ==
    IF data = <<>> THEN <<>> ELSE [i \in 1..Len(data) |-> format_row(data[i])]

\* The records the backing store holds: record i of the result set.
BackendRow(i) ==
    [id |-> Native("int", i),
     at |-> IF i % 2 = 1 THEN Native("datetime", i) ELSE Native("NoneType", 0)]

\* A result set of n records, in the backend's order.
BackendRows(n) == [i \in 1..n |-> BackendRow(i)]

(***************************************************************************)
(* Response envelopes                                                      *)
(*                                                                         *)
(* status: the HTTP status.  body: where the envelope sits ("top": the     *)
(* JSON object itself; "detail": under the "detail" key FastAPI gives an   *)
(* HTTPException; "text": the framework's plain 500; "none": no response   *)
(* yet).  success: "true", "false" or "absent".  error: the error kind or  *)
(* "absent".  data: the envelope's list slot ("data" on the raw service,   *)
(* "results" on the phrase service): absent, null or a list.  count: the   *)
(* rows_affected field.                                                    *)
(***************************************************************************)
Absent == [kind |-> "absent", rows |-> <<>>]
Null == [kind |-> "null", rows |-> <<>>]
List(rows) == [kind |-> "list", rows |-> rows]

NoCount == [present |-> FALSE, n |-> 0]
Count(n) == [present |-> TRUE, n |-> n]

NoResp ==
    [status |-> 0, body |-> "none", success |-> "absent", error |-> "absent",
     data |-> Absent, count |-> NoCount]

build_success_response(data, rows_affected) ==
    [status |-> 200, body |-> "top", success |-> "true", error |-> "absent",
     data |-> IF data.kind = "list" /\ data.rows # <<>>
              THEN List(format_response_data(data.rows)) ELSE Null,
     count |-> Count(rows_affected)]

build_error_response(error_type) ==
    [success |-> "false", error |-> error_type]

\* raise HTTPException(status_code, detail=<error response>)
HTTPException(status_code, detail) ==
    [status |-> status_code, body |-> "detail", success |-> detail.success,
     error |-> detail.error, data |-> Absent, count |-> NoCount]

\* JSONResponse(status_code, content={"success": False, "error": ..., "message": ...})
JSONResponse(status_code, error_type) ==
    [status |-> status_code, body |-> "top", success |-> "false",
     error |-> error_type, data |-> Absent, count |-> NoCount]

\* An exception no handler catches: the framework's 500 "Internal Server Error".
Unhandled500 ==
    [status |-> 500, body |-> "text", success |-> "absent", error |-> "absent",
     data |-> Absent, count |-> NoCount]

\* The request body failed QueryRequest's validation (sql: str is required).
Unprocessable422 ==
    [status |-> 422, body |-> "detail", success |-> "absent", error |-> "absent",
     data |-> Absent, count |-> NoCount]

\* jsonify({"success": ..., "sql": ..., "results": ..., "message": ...}), status
Jsonify(status_code, success, results) ==
    [status |-> status_code, body |-> "top",
     success |-> IF success THEN "true" ELSE "false", error |-> "absent",
     data |-> List(results), count |-> NoCount]

(***************************************************************************)
(* The phrase translator (src/agent-db-middleware/main.py)                 *)
(***************************************************************************)
RegionClass == {"sheng", "shi", "xian", "qu"}

Digits == {"0", "1", "2", "3", "4", "5", "6", "7", "8", "9"}

\* The characters of the range [U+4E00 - U+9FA5] that a phrase may hold.
CJK == RegionClass \cup {"di", "nian", "jin", "xiang", "mu", "lei", "xing", "chun"}

\* How many characters of cls follow one another in text from position i on.
RECURSIVE RunLen(_, _, _)
RunLen(text, i, cls) ==
    IF i <= Len(text) /\ text[i] \in cls THEN 1 + RunLen(text, i + 1, cls) ELSE 0

\* text continues with the literal at position i
LiteralAt(text, i, literal) ==
    /\ i + Len(literal) - 1 <= Len(text)
    /\ SubSeq(text, i, i + Len(literal) - 1) = literal

Max(S) == CHOOSE x \in S : \A y \in S : y <= x

Min(S) == CHOOSE x \in S : \A y \in S : x <= y

\* "(cls+)literal" tried at position i: the lengths the group may take. The
\* group is greedy and backtracks, so the match takes the largest of them.
GroupLens(text, i, cls, literal) ==
    {k \in 1..RunLen(text, i, cls) : LiteralAt(text, i + k, literal)}

\* A match object: found, and group(1), group(2). A group that took no part
\* in the match (None) is the empty text: a group that takes part is never
\* empty in these patterns.
NoMatch == [found |-> FALSE, g1 |-> <<>>, g2 |-> <<>>]
Match(g1, g2) == [found |-> TRUE, g1 |-> g1, g2 |-> g2]

\* re.search, given the pattern's match at each position of the text: the
\* match at the leftmost position where the pattern matches
Search(at) ==
    LET hits == {i \in DOMAIN at : at[i].found}
    IN IF hits = {} THEN NoMatch ELSE at[Min(hits)]

\* area_pattern = ([sheng shi xian qu]+) di qu | ([sheng shi xian qu]+)
area_pattern(text, i) ==
    LET alt1 == GroupLens(text, i, RegionClass, <<"di", "qu">>)
        run == RunLen(text, i, RegionClass)
    IN IF alt1 # {} THEN Match(SubSeq(text, i, i + Max(alt1) - 1), <<>>)
       ELSE IF run >= 1 THEN Match(<<>>, SubSeq(text, i, i + run - 1))
       ELSE NoMatch

\* year_pattern = (\d{4}) nian | jin (\d+) nian
year_pattern(text, i) ==
    LET alt2 == IF LiteralAt(text, i, <<"jin">>)
                THEN GroupLens(text, i + 1, Digits, <<"nian">>) ELSE {}
    IN IF RunLen(text, i, Digits) >= 4 /\ LiteralAt(text, i + 4, <<"nian">>)
       THEN Match(SubSeq(text, i, i + 3), <<>>)
       ELSE IF alt2 # {} THEN Match(<<>>, SubSeq(text, i + 1, i + Max(alt2)))
       ELSE NoMatch

\* type_pattern = ([CJK]+) xiang mu | ([CJK]+) lei xing
type_pattern(text, i) ==
    LET alt1 == GroupLens(text, i, CJK, <<"xiang", "mu">>)
        alt2 == GroupLens(text, i, CJK, <<"lei", "xing">>)
    IN IF alt1 # {} THEN Match(SubSeq(text, i, i + Max(alt1) - 1), <<>>)
       ELSE IF alt2 # {} THEN Match(<<>>, SubSeq(text, i, i + Max(alt2) - 1))
       ELSE NoMatch

\* pattern.search(text)
area_search(text) == Search([i \in 1..Len(text) |-> area_pattern(text, i)])

year_search(text) == Search([i \in 1..Len(text) |-> year_pattern(text, i)])

type_search(text) == Search([i \in 1..Len(text) |-> type_pattern(text, i)])

\* match.group(1) or match.group(2)
GroupOr(m) == IF m.g1 # <<>> THEN m.g1 ELSE m.g2

DigitVal(c) ==
    CASE c = "0" -> 0 [] c = "1" -> 1 [] c = "2" -> 2 [] c = "3" -> 3
      [] c = "4" -> 4 [] c = "5" -> 5 [] c = "6" -> 6 [] c = "7" -> 7
      [] c = "8" -> 8 [] c = "9" -> 9

DigitChar(d) == <<"0", "1", "2", "3", "4", "5", "6", "7", "8", "9">>[d + 1]

\* int(digits)
RECURSIVE ParseInt(_)
ParseInt(digits) ==
    IF digits = <<>> THEN 0
    ELSE 10 * ParseInt(SubSeq(digits, 1, Len(digits) - 1)) + DigitVal(digits[Len(digits)])

\* str(n), n >= 0
RECURSIVE NatToStr(_)
NatToStr(n) ==
    IF n < 10 THEN <<DigitChar(n)>> ELSE NatToStr(n \div 10) \o <<DigitChar(n % 10)>>

\* str(n), as the f-string formats an int
IntToStr(n) == IF n < 0 THEN <<"-">> \o NatToStr(0 - n) ELSE NatToStr(n)

\* " AND ".join(conditions)
RECURSIVE Join(_)
Join(conds) ==
    IF conds = <<>> THEN <<>>
    ELSE IF Len(conds) = 1 THEN conds[1]
    ELSE conds[1] \o <<" AND ">> \o Join(Tail(conds))

\* The conditions list of parse_nl_to_sql. A condition is its text: the
\* literal pieces of the f-string, each one element, and the characters of
\* the value formatted into it.
area_condition(nl) ==
    LET area_match == area_search(nl)
    IN IF area_match.found
       THEN << <<"area = '">> \o GroupOr(area_match) \o <<"'">> >>
       ELSE <<>>

year_condition(nl, current_year) ==
    LET year_match == year_search(nl)
    IN IF ~year_match.found THEN <<>>
       ELSE IF year_match.g1 # <<>>
           THEN << <<"year = ">> \o year_match.g1 >>
       ELSE IF year_match.g2 # <<>>
           THEN LET n_years == ParseInt(year_match.g2)
                    start_year == current_year - n_years + 1
                IN << <<"year >= ">> \o IntToStr(start_year) >>
       ELSE <<>>

type_condition(nl) ==
    LET type_match == type_search(nl)
    IN IF type_match.found
       THEN << <<"type = '">> \o GroupOr(type_match) \o <<"'">> >>
       ELSE <<>>

\* conditions with the category fragment appended first (not the code).
conditions_category_first(nl, current_year) ==
    type_condition(nl) \o area_condition(nl) \o year_condition(nl, current_year)

conditions(nl, current_year) ==
    area_condition(nl) \o year_condition(nl, current_year) \o type_condition(nl)

parse_nl_to_sql(nl, current_year) ==
    LET conds == conditions(nl, current_year)
        where_clause == IF conds # <<>> THEN Join(conds) ELSE <<"1=1">>
    IN <<"SELECT * FROM ", "project", " WHERE ">> \o where_clause \o <<";">>

(***************************************************************************)
(* Requests                                                                *)
(***************************************************************************)
\* The values the API_KEY environment variable may have been given.
ConfiguredKeys == {NoValue, "", "k1"}

\* The values of a request's API_Key header (None: no such header).
HeaderValues == {NoValue, "", "k1", "k2"}

\* The wall-clock years a request may be handled in.
CurrentYears == {2025, 2026}

\* A request body: whether it is JSON, whether it holds the text field
\* ("sql" or "nl_request"), and that text.
Body(json, present, text) == [json |-> json, present |-> present, text |-> text]

RawBodies ==
    {Body(TRUE, FALSE, <<>>),
     Body(TRUE, TRUE, <<>>),
     Body(TRUE, TRUE, <<" ">>),
     Body(TRUE, TRUE, <<" ", "s", "e", "l", "e", "c", "t", " ", "1">>),
     Body(TRUE, TRUE, <<"D", "R", "O", "P", " ", "T", "A", "B", "L", "E", " ", "x">>)}

PhraseBodies ==
    {Body(FALSE, FALSE, <<>>),
     Body(TRUE, FALSE, <<>>),
     Body(TRUE, TRUE, <<" ">>),
     Body(TRUE, TRUE, <<"qu", "2", "0", "2", "5", "nian", "chun", "xiang", "mu">>)}

\* What the backing store may answer to cursor.execute (psycopg2): success, or
\* an exception of class SyntaxError (SQLSTATE 42601), of another
\* ProgrammingError class (UndefinedTable and the like: a semantic error),
\* of OperationalError, or of any other class.
ExecuteOutcomes == {"ok", "SyntaxError", "ProgrammingError", "OperationalError", "Exception"}

\* connection.commit(): success, OperationalError, or another exception.
CommitOutcomes == {"ok", "OperationalError", "Exception"}

\* psycopg2.connect / pymysql.connect
ConnectOutcomes == {"ok", "OperationalError", "Exception"}

\* cursor.execute and cursor.fetchall of pymysql
MySQLOutcomes == {"ok", "MySQLError", "Exception"}

\* cursor.rowcount: the backend's count of rows the statement touched, -1 when
\* the interface cannot determine it.
RowCounts == (0 - 1)..MaxRows

\* The connection settings of the environment, and which of them are set (to
\* a non-empty value) where the services run.
EnvNames == {"DB_HOST", "DB_PORT", "DB_USER", "DB_PASSWORD", "DB_NAME"}

Environments == {EnvNames, EnvNames \ {"DB_HOST"}}

\* os.getenv(name, default): "env" stands for the value the environment gives.
getenv(env, name, default) == IF name \in env THEN "env" ELSE default

\* The arguments get_db_connection gives psycopg2.connect (lines 29-33 and
\* 169-184): a setting that is not set is replaced by its default.
get_db_connection_args(env) ==
    [host |-> getenv(env, "DB_HOST", "36.138.184.180"),
     port |-> getenv(env, "DB_PORT", "5432"),
     user |-> getenv(env, "DB_USER", "libd"),
     password |-> getenv(env, "DB_PASSWORD", "Libd@123"),
     database |-> getenv(env, "DB_NAME", "test")]

\* DB_CONFIG of the phrase service (lines 18-25), given whole to
\* pymysql.connect: host, user and password are None when not set; no port.
DB_CONFIG(env) ==
    [host |-> getenv(env, "DB_HOST", NoValue),
     port |-> NoValue,
     user |-> getenv(env, "DB_USER", NoValue),
     password |-> getenv(env, "DB_PASSWORD", NoValue),
     database |-> getenv(env, "DB_NAME", "test_db")]

NoArgs ==
    [host |-> NoValue, port |-> NoValue, user |-> NoValue,
     password |-> NoValue, database |-> NoValue]

\* Connection objects. A slot of conns is free (no such object exists) or
\* holds an object: its state, the request whose connect() made it, the
\* requests that called it, and whether it was called when not open.
FreeConn == [state |-> "free", owner |-> 0, users |-> {}, misused |-> FALSE]

shared_connection(table) ==
    IF \E c \in DOMAIN table : table[c].state = "open"
    THEN CHOOSE c \in DOMAIN table : table[c].state = "open"
    ELSE CHOOSE c \in DOMAIN table : table[c].state = "free"

\* psycopg2.connect / pymysql.connect return a new object on every call.
new_connection(table) ==
    CHOOSE c \in DOMAIN table :
        /\ table[c].state = "free"
        /\ \A d \in DOMAIN table : table[d].state = "free" => c <= d

\* The object c after request r got it from connect().
Connected(table, c, r) ==
    [table EXCEPT ![c] = [state |-> "open", owner |-> r, users |-> {r},
                          misused |-> FALSE]]

\* The object c after request r called cursor.execute, fetchall, commit or
\* rollback on it.
Used(table, c, r) ==
    [table EXCEPT ![c].users = @ \cup {r},
                  ![c].misused = @ \/ table[c].state # "open"]

\* The object c after request r's finally clause, which leaves it in state.
Closed(table, c, r, state) ==
    [table EXCEPT ![c].users = @ \cup {r}, ![c].state = state]

\* The object c once the handler of r has returned: it exists as long as
\* another handler holds it.
Released(table, c, r, requests) ==
    IF c = 0 \/ \E o \in DOMAIN requests : o # r /\ requests[o].cid = c
    THEN table
    ELSE [table EXCEPT ![c] = FreeConn]

IdleReq ==
    [pc |-> "idle", surface |-> "none", path |-> "none", header |-> NoValue,
     body |-> Body(FALSE, FALSE, <<>>), sql |-> <<>>, conn |-> "none",
     cid |-> 0, connect_args |-> NoArgs,
     ops |-> <<>>, executed |-> "none", exc |-> "none", data |-> Null, rowcount |-> 0 - 1,
     log |-> <<>>, resp |-> NoResp]

(***************************************************************************)
(* The raw-statement service (src/main.py)                                 *)
(***************************************************************************)
\* A request arrives at one of the two services.
Receive(r) ==
    /\ req[r].pc = "idle"
    /\ \E header \in HeaderValues :
        \/ \E path \in {"/", "/query"} :
              req' = [req EXCEPT ![r] =
                         [IdleReq EXCEPT !.pc = "gate", !.surface = "raw",
                                         !.path = path, !.header = header]]
        \/ req' = [req EXCEPT ![r] =
                      [IdleReq EXCEPT !.pc = "route", !.surface = "phrase",
                                      !.path = "/api/process-request",
                                      !.header = header]]
    /\ UNCHANGED <<config, conns, translator, applied>>

verify_api_key_decision_no401(path, api_key, configured) ==
    IF path = "/" THEN "next"
    ELSE IF api_key # configured THEN "403"
    ELSE "next"

\* The decision of verify_api_key: "next" (call_next) or the rejection's status.
verify_api_key_decision(path, api_key, configured) ==
    IF path = "/" THEN "next"
    ELSE IF ~Truthy(api_key) THEN "401"
    ELSE IF api_key # configured THEN "403"
    ELSE "next"

\* verify_api_key is the outermost middleware (the one added last): a request
\* it rejects never reaches log_requests. On call_next, log_requests logs the
\* start of the request.
verify_api_key(r) ==
    /\ req[r].pc = "gate"
    /\ LET d == verify_api_key_decision(req[r].path, req[r].header, API_KEY)
       IN req' = [req EXCEPT ![r] =
                     IF d = "401"
                     THEN [@ EXCEPT !.pc = "done",
                                    !.resp = JSONResponse(401, "AuthenticationError")]
                     ELSE IF d = "403"
                     THEN [@ EXCEPT !.pc = "done",
                                    !.resp = JSONResponse(403, "AuthorizationError")]
                     ELSE [@ EXCEPT !.pc = "route", !.log = Append(@, "start")]]
    /\ UNCHANGED <<config, conns, translator, applied>>

\* What log_requests logs when the response (or the exception) comes back.
log_requests_end(resp) == IF resp.body = "text" THEN "error" ELSE "complete"

health_check(r) ==
    /\ req[r].pc = "route"
    /\ req[r].surface = "raw"
    /\ req[r].path = "/"
    /\ LET resp == [status |-> 200, body |-> "top", success |-> "true",
                    error |-> "absent", data |-> Absent, count |-> NoCount]
       IN req' = [req EXCEPT ![r] =
                     [@ EXCEPT !.pc = "done", !.resp = resp,
                               !.log = Append(@, log_requests_end(resp))]]
    /\ UNCHANGED <<config, conns, translator, applied>>

\* get_db_connection: (True, connection) or (False, error response). Both
\* except clauses (OperationalError, Exception) give the same error kind.
get_db_connection(outcome) ==
    IF outcome = "ok"
    THEN [ok |-> TRUE, detail |-> [success |-> "absent", error |-> "absent"]]
    ELSE [ok |-> FALSE, detail |-> [success |-> "false", error |-> "ConnectionError"]]

\* execute_query up to the connection (lines 351-365): the body is validated,
\* then the connection is made.
execute_query(r) ==
    /\ req[r].pc = "route"
    /\ req[r].surface = "raw"
    /\ req[r].path = "/query"
    /\ \E body \in RawBodies, outcome \in ConnectOutcomes :
        LET result == get_db_connection(outcome)
            args == get_db_connection_args(DB_ENV)
            connection == new_connection(conns)
            rejected == \/ ~body.json \/ ~body.present
                        \/ body.text = <<>> \/ Strip(body.text) = <<>>
            finish(resp) ==
                [req[r] EXCEPT !.pc = "done", !.body = body, !.resp = resp,
                               !.log = Append(@, log_requests_end(resp))]
        IN /\ req' = [req EXCEPT ![r] =
                      IF ~body.json \/ ~body.present
                      THEN finish(Unprocessable422)
                      ELSE IF body.text = <<>> \/ Strip(body.text) = <<>>
                      THEN finish(HTTPException(400, build_error_response("ValidationError")))
                      ELSE IF ~result.ok
                      THEN [finish(HTTPException(500, result.detail))
                               EXCEPT !.sql = body.text, !.ops = <<"connect">>,
                                      !.connect_args = args]
                      ELSE [@ EXCEPT !.pc = "executing", !.body = body,
                                     !.sql = body.text, !.conn = "open",
                                     !.cid = connection, !.connect_args = args,
                                     !.ops = <<"connect">>]]
           /\ conns' = IF ~rejected /\ result.ok
                       THEN Connected(conns, connection, r) ELSE conns
    /\ UNCHANGED <<config, translator, applied>>

\* Lines 368-391: cursor.execute, then fetchall (a read; it fails when the
\* statement gave no result set) or rowcount (a write).
execute_query_execute(r) ==
    /\ req[r].pc = "executing"
    /\ req[r].surface = "raw"
    /\ \E outcome \in ExecuteOutcomes, n \in 0..MaxRows, rowcount \in RowCounts,
          fetched \in BOOLEAN :
        req' = [req EXCEPT ![r] =
                   IF outcome # "ok"
                   THEN [@ EXCEPT !.pc = "rollingback", !.exc = outcome,
                                  !.executed = "failed",
                                  !.ops = Append(@, "execute")]
                   ELSE IF is_select_query(req[r].sql)
                   THEN IF fetched
                        THEN [@ EXCEPT !.pc = "committing", !.executed = "ok",
                                       !.ops = @ \o <<"execute", "fetchall">>,
                                       !.data = List(BackendRows(n)),
                                       !.rowcount = rowcount]
                        ELSE [@ EXCEPT !.pc = "rollingback",
                                       !.exc = "ProgrammingError",
                                       !.executed = "failed",
                                       !.ops = @ \o <<"execute", "fetchall">>]
                   ELSE [@ EXCEPT !.pc = "committing", !.executed = "ok",
                                  !.ops = Append(@, "execute"),
                                  !.rowcount = rowcount]]
    /\ conns' = Used(conns, req[r].cid, r)
    /\ UNCHANGED <<config, translator, applied>>

execute_query_result_rowcount(sql, data, rowcount) ==
    build_success_response(IF is_select_query(sql) THEN data ELSE Null, rowcount)

\* The response of a successful execution (lines 383-388 and 395-400).
execute_query_result(sql, data, rowcount) ==
    IF is_select_query(sql)
    THEN build_success_response(data, Len(data.rows))
    ELSE build_success_response(Null, rowcount)

\* connection.commit() (lines 380, 392) and the return that follows it
execute_query_commit(r) ==
    /\ req[r].pc = "committing"
    /\ \E outcome \in CommitOutcomes :
        req' = [req EXCEPT ![r] =
                   IF outcome = "ok"
                   THEN [@ EXCEPT !.pc = "closing", !.ops = Append(@, "commit"),
                                  !.resp = execute_query_result(
                                               req[r].sql, req[r].data, req[r].rowcount)]
                   ELSE [@ EXCEPT !.pc = "rollingback", !.exc = outcome,
                                  !.ops = Append(@, "commit")]]
    /\ conns' = Used(conns, req[r].cid, r)
    /\ UNCHANGED <<config, translator, applied>>

\* The except clauses of execute_query (lines 402-420): the first clause
\* whose class the exception is an instance of.
except_clause(exc) ==
    IF exc = "SyntaxError"
    THEN HTTPException(400, build_error_response("SQLError"))
    ELSE IF exc = "OperationalError"
    THEN HTTPException(400, build_error_response("SQLError"))
    ELSE HTTPException(500, build_error_response("InternalError"))

\* connection.rollback() in the except clause; when it raises, its exception
\* leaves the handler in place of the HTTPException.
execute_query_rollback(r) ==
    /\ req[r].pc = "rollingback"
    /\ \E rolled_back \in BOOLEAN :
        req' = [req EXCEPT ![r] =
                   [@ EXCEPT !.pc = "closing", !.ops = Append(@, "rollback"),
                             !.data = Null, !.rowcount = 0 - 1,
                             !.resp = IF rolled_back THEN except_clause(req[r].exc)
                                      ELSE Unhandled500]]
    /\ conns' = Used(conns, req[r].cid, r)
    /\ UNCHANGED <<config, translator, applied>>

execute_query_finally_conn_leak(conn) == conn

\* What the finally clause does to the connection (line 422).
execute_query_finally_conn(conn) == "closed"

\* finally: connection.close(); then the response leaves through log_requests.
execute_query_finally(r) ==
    /\ req[r].pc = "closing"
    /\ req[r].surface = "raw"
    /\ req' = [req EXCEPT ![r] =
                  [@ EXCEPT !.pc = "done",
                            !.conn = execute_query_finally_conn(@),
                            !.ops = Append(@, "close"),
                            !.log = Append(@, log_requests_end(req[r].resp))]]
    /\ conns' = Closed(conns, req[r].cid, r,
                       execute_query_finally_conn(req[r].conn))
    /\ UNCHANGED <<config, translator, applied>>

(***************************************************************************)
(* The phrase service (src/agent-db-middleware/main.py)                    *)
(***************************************************************************)
\* The response process_agent_request builds from execute_mysql_sql's tuple
\* (lines 146-151): jsonify without a status is a 200.
process_agent_request_result(exec_success, exec_results) ==
    Jsonify(200, exec_success, exec_results)

\* process_agent_request up to the connection made by execute_mysql_sql
\* (lines 120-143 and 83-88). The Flask application has no middleware: the
\* request reaches the handler as it arrived.
process_agent_request(r) ==
    /\ req[r].pc = "route"
    /\ req[r].surface = "phrase"
    /\ \E body \in PhraseBodies, outcome \in ConnectOutcomes :
        LET nl_request == Strip(body.text)
            sql == parse_nl_to_sql(nl_request, now_year)
            args == DB_CONFIG(DB_ENV)
            conn == new_connection(conns)
        IN /\ conns' = IF body.json /\ nl_request # <<>> /\ outcome = "ok"
                       THEN Connected(conns, conn, r) ELSE conns
           /\ req' = [req EXCEPT ![r] =
                      IF ~body.json
                      THEN [@ EXCEPT !.pc = "done", !.body = body,
                                     !.resp = Jsonify(400, FALSE, <<>>)]
                      ELSE IF nl_request = <<>>
                      THEN [@ EXCEPT !.pc = "done", !.body = body,
                                     !.resp = Jsonify(400, FALSE, <<>>)]
                      ELSE IF outcome # "ok"
                      THEN [@ EXCEPT !.pc = "done", !.body = body, !.sql = sql,
                                     !.ops = <<"connect">>, !.connect_args = args,
                                     !.resp = process_agent_request_result(FALSE, <<>>)]
                      ELSE [@ EXCEPT !.pc = "executing", !.body = body,
                                     !.sql = sql, !.conn = "open",
                                     !.cid = conn, !.connect_args = args,
                                     !.ops = <<"connect">>]]
    /\ UNCHANGED <<config, translator, applied>>

\* Lines 91-103: cursor.execute and cursor.fetchall, and the tuple returned.
execute_mysql_sql_execute(r) ==
    /\ req[r].pc = "executing"
    /\ req[r].surface = "phrase"
    /\ \E outcome \in MySQLOutcomes, n \in 0..MaxRows :
        req' = [req EXCEPT ![r] =
                   IF outcome = "ok"
                   THEN [@ EXCEPT !.pc = "closing", !.executed = "ok",
                                  !.ops = @ \o <<"execute", "fetchall">>,
                                  !.data = List(BackendRows(n)),
                                  !.resp = process_agent_request_result(TRUE, BackendRows(n))]
                   ELSE [@ EXCEPT !.pc = "closing", !.exc = outcome,
                                  !.executed = "failed",
                                  !.ops = Append(@, "execute"),
                                  !.resp = process_agent_request_result(FALSE, <<>>)]]
    /\ conns' = Used(conns, req[r].cid, r)
    /\ UNCHANGED <<config, translator, applied>>

\* What the finally clause does to the connection (lines 108-109).
execute_mysql_sql_finally_conn(conn) == IF conn # "none" THEN "closed" ELSE conn

\* finally: cursor.close(), conn.close() (lines 104-109), then the response
execute_mysql_sql_finally(r) ==
    /\ req[r].pc = "closing"
    /\ req[r].surface = "phrase"
    /\ req' = [req EXCEPT ![r] =
                  [@ EXCEPT !.pc = "done",
                            !.conn = execute_mysql_sql_finally_conn(@),
                            !.ops = Append(@, "close")]]
    /\ conns' = Closed(conns, req[r].cid, r,
                       execute_mysql_sql_finally_conn(req[r].conn))
    /\ UNCHANGED <<config, translator, applied>>

\* The response has been sent: nothing of the request survives it.
Reset(r) ==
    /\ req[r].pc = "done"
    /\ req' = [req EXCEPT ![r] = IdleReq]
    /\ conns' = Released(conns, req[r].cid, r, req)
    /\ UNCHANGED <<config, translator, applied>>

(***************************************************************************)
(* Specification of the two services                                       *)
(***************************************************************************)
NotParsed == [done |-> FALSE, conds |-> <<>>, sql |-> <<>>]

Init ==
    /\ API_KEY \in ConfiguredKeys
    /\ DB_ENV \in Environments
    /\ req = [r \in Reqs |-> IdleReq]
    /\ conns = [c \in Reqs |-> FreeConn]
    /\ nl_text = <<>>
    /\ now_year = 2025
    /\ parsed = NotParsed
    /\ arg = <<>>
    /\ returned = <<>>

Next ==
    \E r \in Reqs :
        \/ Receive(r)
        \/ verify_api_key(r)
        \/ health_check(r)
        \/ execute_query(r)
        \/ execute_query_execute(r)
        \/ execute_query_commit(r)
        \/ execute_query_rollback(r)
        \/ execute_query_finally(r)
        \/ process_agent_request(r)
        \/ execute_mysql_sql_execute(r)
        \/ execute_mysql_sql_finally(r)
        \/ Reset(r)

Spec == Init /\ [][Next]_vars

(***************************************************************************)
(* Specification of two requests in flight at once, on the services        *)
(* configured with a key and every connection setting.                     *)
(***************************************************************************)
ConcReqs == {1, 2}

InitConc ==
    /\ API_KEY = "k1"
    /\ DB_ENV = EnvNames
    /\ req = [r \in ConcReqs |-> IdleReq]
    /\ conns = [c \in ConcReqs |-> FreeConn]
    /\ nl_text = <<>>
    /\ now_year = 2025
    /\ parsed = NotParsed
    /\ arg = <<>>
    /\ returned = <<>>

NextConc ==
    \E r \in ConcReqs :
        \/ Receive(r)
        \/ verify_api_key(r)
        \/ health_check(r)
        \/ execute_query(r)
        \/ execute_query_execute(r)
        \/ execute_query_commit(r)
        \/ execute_query_rollback(r)
        \/ execute_query_finally(r)
        \/ process_agent_request(r)
        \/ execute_mysql_sql_execute(r)
        \/ execute_mysql_sql_finally(r)
        \/ Reset(r)

SpecConc == InitConc /\ [][NextConc]_vars

(***************************************************************************)
(* Specification of the phrase translator: parse_nl_to_sql applied to the  *)
(* phrases made of at most MaxFrags fragments.                             *)
(***************************************************************************)
\* The pieces phrases are made of: "recent", a digit, "year", an explicit
\* year, a region character, another CJK character, "project".
Fragments ==
    {<<"jin">>, <<"3">>, <<"nian">>, <<"2", "0", "2", "5", "nian">>, <<"qu">>,
     <<"chun">>, <<"xiang", "mu">>}

RECURSIVE Phrases(_)
Phrases(n) ==
    IF n = 0 THEN {<<>>}
    ELSE LET shorter == Phrases(n - 1)
         IN shorter \cup {p \o f : p \in shorter, f \in Fragments}

InitParse ==
    /\ API_KEY = NoValue
    /\ DB_ENV = EnvNames
    /\ req = [r \in Reqs |-> IdleReq]
    /\ conns = [c \in Reqs |-> FreeConn]
    /\ nl_text \in Phrases(MaxFrags)
    /\ now_year \in CurrentYears
    /\ parsed = NotParsed
    /\ arg = <<>>
    /\ returned = <<>>

Parse ==
    /\ ~parsed.done
    /\ parsed' = [done |-> TRUE,
                  conds |-> conditions(nl_text, now_year),
                  sql |-> parse_nl_to_sql(nl_text, now_year)]
    /\ UNCHANGED <<config, req, conns, nl_text, now_year, applied>>

NextParse == Parse

SpecParse == InitParse /\ [][NextParse]_vars

(***************************************************************************)
(* Specification of the statement classifier: is_select_query applied to   *)
(* the statements made of at most MaxPieces pieces.                        *)
(***************************************************************************)
NotApplied == [done |-> FALSE]

\* The pieces statements are made of.
StatementPieces ==
    {<<" ">>, <<"\n">>, <<"s", "e", "l", "e", "c", "t">>,
     <<"S", "E", "L", "E", "C", "T">>, <<"S", "e", "l">>, <<"e", "d">>,
     <<"_">>, <<"1">>, <<"*">>, <<"(">>, <<"d", "r", "o", "p">>}

RECURSIVE Statements(_)
Statements(n) ==
    IF n = 0 THEN {<<>>}
    ELSE LET shorter == Statements(n - 1)
         IN shorter \cup {p \o f : p \in shorter, f \in StatementPieces}

InitClassify ==
    /\ API_KEY = NoValue
    /\ DB_ENV = EnvNames
    /\ req = [r \in Reqs |-> IdleReq]
    /\ conns = [c \in Reqs |-> FreeConn]
    /\ nl_text = <<>>
    /\ now_year = 2025
    /\ parsed = NotParsed
    /\ arg \in Statements(MaxPieces)
    /\ returned = NotApplied

Classify ==
    /\ ~returned.done
    /\ returned' = [done |-> TRUE, value |-> is_select_query(arg)]
    /\ UNCHANGED <<config, req, conns, translator, arg>>

NextClassify == Classify

SpecClassify == InitClassify /\ [][NextClassify]_vars

(***************************************************************************)
(* Specification of the value serializer: serialize_value applied to the   *)
(* values of every type, of magnitude at most MaxMagnitude.                *)
(***************************************************************************)
\* The Python types of the values a cursor returns.
ValueTypes ==
    {"NoneType", "datetime", "date", "time", "timedelta", "Decimal", "bytes",
     "memoryview", "int", "float", "str", "bool"}

Values == {Native(type, v) : type \in ValueTypes, v \in 0..MaxMagnitude}

InitSerialize ==
    /\ API_KEY = NoValue
    /\ DB_ENV = EnvNames
    /\ req = [r \in Reqs |-> IdleReq]
    /\ conns = [c \in Reqs |-> FreeConn]
    /\ nl_text = <<>>
    /\ now_year = 2025
    /\ parsed = NotParsed
    /\ arg \in Values
    /\ returned = NotApplied

Serialize ==
    /\ ~returned.done
    /\ returned' = [done |-> TRUE, value |-> serialize_value(arg)]
    /\ UNCHANGED <<config, req, conns, translator, arg>>

NextSerialize == Serialize

SpecSerialize == InitSerialize /\ [][NextSerialize]_vars

(***************************************************************************)
(* Properties                                                              *)
(***************************************************************************)
Done(r) == req[r].pc = "done"

Has(ops, op) == \E i \in 1..Len(ops) : ops[i] = op

\* The request carries a credential equal to the configured key.
CarriesKey(r) == req[r].header # NoValue /\ req[r].header = API_KEY

\* verify_api_key called call_next for the request.
Proceeded(r) == req[r].surface = "raw" /\ req[r].log # <<>>

\* C1: a request that acquired a connection has closed it when its handler
\* has finished, whatever the exit path: no finished request holds an open
\* connection, and close is the last call made on the connection.
C1_ConnectionClosed ==
    \A r \in Reqs :
        Done(r) =>
            /\ req[r].conn # "open"
            /\ Has(req[r].ops, "execute") =>
                   /\ req[r].conn = "closed"
                   /\ req[r].ops[Len(req[r].ops)] = "close"

\* A request whose rollback itself failed has finished with its connection closed.
C1_Witness ==
    \E r \in Reqs :
        /\ Done(r)
        /\ req[r].conn = "closed"
        /\ Has(req[r].ops, "rollback")
        /\ req[r].resp = Unhandled500

C3_GateWrapsEveryRequest ==
    \A r \in Reqs :
        (req[r].path # "/" /\ req[r].ops # <<>>) => CarriesKey(r)

\* C4: a statement the backing store rejects while it executes it, for a
\* syntax error or for a semantic error, is answered 400 SQLError, the
\* transaction rolled back before (a rollback that itself fails set aside).
C4_RejectedIsSQLError ==
    \A r \in Reqs :
        (/\ Done(r)
         /\ req[r].surface = "raw"
         /\ req[r].exc \in {"SyntaxError", "ProgrammingError"}
         /\ ~Has(req[r].ops, "fetchall")
         /\ req[r].resp # Unhandled500) =>
            /\ req[r].resp = HTTPException(400, build_error_response("SQLError"))
            /\ Has(req[r].ops, "rollback")

\* The call succeeded up to its commit.
ExecutionSucceeded(r) == req[r].executed = "ok"

CommitFailed(r) == req[r].executed = "ok" /\ req[r].exc # "none"

\* C5: a call that reached the execution of its statement went through
\* connect, execute, then commit or rollback, then close: it committed if and
\* only if the execution succeeded, rolled back if and only if the execution or
\* the commit failed, and did one of the two before it closed.
C5_CommitOrRollbackBeforeClose ==
    \A r \in Reqs :
        (Done(r) /\ Has(req[r].ops, "execute")) =>
            LET ops == req[r].ops
            IN /\ ops[1] = "connect" /\ ops[2] = "execute"
               /\ ops[Len(ops)] = "close"
               /\ Has(ops, "commit") <=> ExecutionSucceeded(r)
               /\ Has(ops, "rollback") <=> (~ExecutionSucceeded(r) \/ CommitFailed(r))
               /\ ops[Len(ops) - 1] \in {"commit", "rollback"}

\* C6: a response with success = false has no list in its data slot.
C6_FailureHasNoData ==
    \A r \in Reqs :
        (Done(r) /\ req[r].resp.success = "false") => req[r].resp.data.kind # "list"

\* The status the taxonomy gives each error kind.
TaxonomyStatus ==
    [ValidationError |-> 400, AuthenticationError |-> 401,
     AuthorizationError |-> 403, ConfigurationError |-> 500,
     ConnectionError |-> 500, SQLError |-> 400, InternalError |-> 500]

\* C7: a response with success = false names an error kind of the taxonomy
\* and has the status of that kind; a failed connection or statement is never
\* answered 200.
C7_FailureHasKindAndStatus ==
    \A r \in Reqs :
        Done(r) =>
            /\ req[r].resp.success = "false" =>
                   /\ req[r].resp.error \in DOMAIN TaxonomyStatus
                   /\ req[r].resp.status = TaxonomyStatus[req[r].resp.error]
            /\ (req[r].ops # <<>> /\ (req[r].conn = "none" \/ req[r].exc # "none")) =>
                   req[r].resp.status # 200

\* C8: on the raw service, the response of a successfully executed statement:
\* for a read, the count is the number of records the backend returned; for a
\* write, the data is null and the count is the backend's cursor.rowcount.
C8_ReadCountsRowsWriteHasNoRows ==
    \A r \in Reqs :
        (/\ req[r].surface = "raw"
         /\ req[r].resp.success = "true"
         /\ req[r].executed = "ok") =>
            IF is_select_query(req[r].sql)
            THEN /\ req[r].resp.count = Count(Len(req[r].data.rows))
                 /\ req[r].resp.data.kind = "list" =>
                        Len(req[r].resp.data.rows) = Len(req[r].data.rows)
            ELSE /\ req[r].resp.data = Null
                 /\ req[r].resp.count = Count(req[r].rowcount)

\* A read was answered whose record count differs from cursor.rowcount.
C8_Witness ==
    \E r \in Reqs :
        /\ Done(r)
        /\ req[r].surface = "raw"
        /\ req[r].resp.success = "true"
        /\ is_select_query(req[r].sql)
        /\ req[r].data.rows # <<>>
        /\ req[r].rowcount # Len(req[r].data.rows)

\* value is a part of text: it occurs in it, character after character
Contains(text, value) ==
    /\ value # <<>>
    /\ \E i \in 1..(Len(text) - Len(value) + 1) :
           SubSeq(text, i, i + Len(value) - 1) = value

\* The values the patterns extract from a phrase.
ExtractedValues(nl) ==
    {GroupOr(area_search(nl)), GroupOr(year_search(nl)),
     GroupOr(type_search(nl))} \ {<<>>}

\* Which patterns a phrase matches, and by which alternative of the year pattern.
PatternSet(nl) ==
    LET year_match == year_search(nl)
    IN [area |-> area_search(nl).found,
        year |-> IF ~year_match.found THEN "none"
                 ELSE IF year_match.g1 # <<>> THEN "explicit" ELSE "last",
        type |-> type_search(nl).found]

\* C9: the query text built for a phrase holds none of the values extracted
\* from the phrase, and every phrase that matches the same patterns gets the
\* same query text.
C9_ValuesAreBound ==
    parsed.done =>
        /\ \A value \in ExtractedValues(nl_text) : ~Contains(parsed.sql, value)
        /\ \A other \in Phrases(MaxFrags) :
               PatternSet(other) = PatternSet(nl_text) =>
                   parse_nl_to_sql(other, now_year) = parsed.sql

\* An explicit year stands at position i of text: four digits, then "year".
ExplicitYearAt(text, i) ==
    RunLen(text, i, Digits) >= 4 /\ LiteralAt(text, i + 4, <<"nian">>)

\* A "last N years" fragment stands at position i: "recent", digits, "year".
LastYearsAt(text, i) ==
    LiteralAt(text, i, <<"jin">>) /\ GroupLens(text, i + 1, Digits, <<"nian">>) # {}

\* The positions of an explicit year and of a "last N years" fragment of text
\* that do not overlap.
BothYearFragments(text) ==
    {ij \in (1..Len(text)) \X (1..Len(text)) :
        /\ ExplicitYearAt(text, ij[1])
        /\ LastYearsAt(text, ij[2])
        /\ \/ ij[1] + 4 < ij[2]
           \/ ij[2] + RunLen(text, ij[2] + 1, Digits) + 1 < ij[1]}

\* C10: for a phrase that holds an explicit 4-digit year and a "last N
\* years" fragment, in either order, the conditions hold year = <the explicit
\* year> and no year >= condition.
C10_ExplicitYearWins ==
    (parsed.done /\ BothYearFragments(nl_text) # {}) =>
        /\ \E ij \in BothYearFragments(nl_text) :
               \E c \in 1..Len(parsed.conds) :
                   parsed.conds[c] = <<"year = ">> \o SubSeq(nl_text, ij[1], ij[1] + 3)
        /\ \A c \in 1..Len(parsed.conds) : parsed.conds[c][1] # "year >= "

\* The kind of a condition, read from the text it starts with.
Kind(cond) ==
    CASE cond[1] = "area = '" -> "region"
      [] cond[1] \in {"year = ", "year >= "} -> "year"
      [] cond[1] = "type = '" -> "category"
      [] OTHER -> "other"

KindRank(kind) ==
    CASE kind = "region" -> 1 [] kind = "year" -> 2 [] kind = "category" -> 3
      [] OTHER -> 0

\* The text between " WHERE " and ";" of a statement built by the translator.
WhereClause(sql) == SubSeq(sql, 4, Len(sql) - 1)

\* C11: the conditions built for a phrase hold at most one condition of each
\* kind, in the order region, year, category wherever the fragments stand in
\* the phrase; the statement joins exactly these conditions with AND; and a
\* phrase that matches the three patterns gets exactly the three conditions
\* region, year, category.
C11_OnePredicatePerKindInFixedOrder ==
    parsed.done =>
        LET conds == parsed.conds
            found == PatternSet(nl_text)
        IN /\ \A c \in 1..Len(conds) : KindRank(Kind(conds[c])) > 0
           /\ \A c, d \in 1..Len(conds) :
                  c < d => KindRank(Kind(conds[c])) < KindRank(Kind(conds[d]))
           /\ conds # <<>> => WhereClause(parsed.sql) = Join(conds)
           /\ (found.area /\ found.year # "none" /\ found.type) =>
                  [c \in 1..Len(conds) |-> Kind(conds[c])]
                      = <<"region", "year", "category">>

\* A phrase with the category fragment first and the region fragment last
\* has been translated into three conditions.
C11_Witness ==
    /\ parsed.done
    /\ nl_text = <<"chun", "xiang", "mu", "2", "0", "2", "5", "nian", "qu">>
    /\ Len(parsed.conds) = 3
    /\ parsed.conds[1] = <<"area = '", "qu", "'">>

\* C12: every request, the health check and the requests the gate rejects
\* with 401 or 403 included, has exactly one start log entry followed by
\* exactly one completion-or-failure log entry when its response is sent.
C12_EveryRequestLogged ==
    \A r \in Reqs :
        Done(r) =>
            /\ Len(req[r].log) = 2
            /\ req[r].log[1] = "start"
            /\ req[r].log[2] \in {"complete", "error"}

\* The request carried an empty or whitespace-only statement or phrase to
\* its handler.
EmptyInput(r) ==
    /\ req[r].body.json
    /\ req[r].body.present
    /\ Strip(req[r].body.text) = <<>>

\* C13: a request whose statement or phrase is empty or whitespace-only is
\* answered 400 with the error kind ValidationError, and no connection was
\* opened and no statement executed for it.
C13_EmptyInputRejected ==
    \A r \in Reqs :
        (Done(r) /\ EmptyInput(r)) =>
            /\ req[r].resp.status = 400
            /\ req[r].resp.error = "ValidationError"
            /\ req[r].ops = <<>>
            /\ req[r].conn = "none"

\* The raw service answered the request with a success response.
RawSucceeded(r) ==
    /\ Done(r)
    /\ req[r].surface = "raw"
    /\ req[r].path = "/query"
    /\ req[r].resp.success = "true"

\* C15: a successful execution answers with one variant: a read with data a
\* list of as many records as the backend returned, the empty list when it
\* returned none and never null; a write with a count and data null.
C15_ReadHasListWriteHasCount ==
    \A r \in Reqs :
        RawSucceeded(r) =>
            IF is_select_query(req[r].sql)
            THEN /\ req[r].resp.data.kind = "list"
                 /\ Len(req[r].resp.data.rows) = Len(req[r].data.rows)
            ELSE /\ req[r].resp.data = Null
                 /\ req[r].resp.count.present

\* What the Value Serializer makes of a backend result set: the records in
\* their order, each field under its name, each value serialized.
Serialized(rows) ==
    [i \in 1..Len(rows) |->
        [k \in DOMAIN rows[i] |-> serialize_value(rows[i][k])]]

\* The request was a read that succeeded, on either path.
ReadSucceeded(r) ==
    /\ Done(r)
    /\ req[r].executed = "ok"
    /\ req[r].resp.success = "true"
    /\ \/ req[r].surface = "phrase"
       \/ req[r].surface = "raw" /\ is_select_query(req[r].sql)

\* C17: the data of a successful read, on the raw path and on the phrase
\* path, is the backend result set with every value passed through the
\* Value Serializer: as many records, in the same order, with the same field
\* names.
C17_ReadDataIsSerializedResultSet ==
    \A r \in Reqs :
        ReadSucceeded(r) =>
            req[r].resp.data = List(Serialized(req[r].data.rows))

\* The connection parameters the services require that the environment does
\* not give.
MissingParams == EnvNames \ DB_ENV

\* The handler of the request got as far as connecting: its input was
\* accepted and the statement to run is known.
ReachedConnecting(r) == req[r].sql # <<>>

\* C14: when a required connection parameter (host, port, user, password,
\* database name) is absent, no connection attempt is made, and a request
\* that got as far as connecting is answered 500 ConfigurationError.
C14_MissingParameterIsConfigurationError ==
    \A r \in Reqs :
        MissingParams # {} =>
            /\ ~Has(req[r].ops, "connect")
            /\ (Done(r) /\ ReachedConnecting(r)) =>
                   /\ req[r].resp.status = 500
                   /\ req[r].resp.error = "ConfigurationError"

WordChars ==
    {LowerCase[i] : i \in DOMAIN LowerCase} \cup
    {UpperCase[i] : i \in DOMAIN UpperCase} \cup
    {"0", "1", "2", "3", "4", "5", "6", "7", "8", "9", "_"}

\* The first whole token of a statement, in upper case: the longest run of
\* word characters after the leading whitespace.
LeadingKeyword(sql) ==
    LET trimmed == LStrip(sql)
    IN Upper(SubSeq(trimmed, 1, RunLen(trimmed, 1, WordChars)))

\* C16: a statement is classified read-only exactly when its leading keyword,
\* the first whole token after the leading whitespace, is SELECT in any
\* case; a statement whose first token only begins with the letters SELECT
\* is classified as mutating.
C16_ReadOnlyIffLeadingKeywordIsSelect ==
    returned.done => (returned.value <=> LeadingKeyword(arg) = SELECT)

\* The mapping table of the Value Serializer, by the type of the value.
MappingTable(value) ==
    CASE value.type = "NoneType" -> value
      [] value.type = "datetime" ->
            [type |-> "str", form |-> "iso-datetime", v |-> value.v]
      [] value.type = "date" ->
            [type |-> "str", form |-> "iso-date", v |-> value.v]
      [] value.type = "time" ->
            [type |-> "str", form |-> "iso-time", v |-> value.v]
      [] value.type = "timedelta" ->
            [type |-> "str", form |-> "str-timedelta", v |-> value.v]
      [] value.type = "Decimal" ->
            [type |-> "float", form |-> "native", v |-> value.v]
      [] value.type = "bytes" ->
            [type |-> "str", form |-> "base64", v |-> value.v]
      [] OTHER -> value

CountOf(ops, op) == Cardinality({i \in 1..Len(ops) : ops[i] = op})

\* The connection objects are each held and called by the request that
\* made them, and by no other; none is called when not open; a request
\* makes at most one and attempts at most one execute.
ConnectionsAreOwned ==
    /\ \A c \in DOMAIN conns :
           conns[c].state # "free" =>
               /\ conns[c].users \subseteq {conns[c].owner}
               /\ ~conns[c].misused
    /\ \A r \in DOMAIN req :
           /\ CountOf(req[r].ops, "connect") <= 1
           /\ CountOf(req[r].ops, "execute") <= 1
           /\ req[r].cid # 0 => conns[req[r].cid].owner = r
    /\ \A r1, r2 \in DOMAIN req :
           (r1 # r2 /\ req[r1].cid # 0) => req[r1].cid # req[r2].cid

\* A step changes the state of one request, changes no connection but that
\* request's, and leaves the configuration as it is.
StepIsOfOneRequest ==
    /\ \A r1, r2 \in DOMAIN req :
           (req'[r1] # req[r1] /\ req'[r2] # req[r2]) => r1 = r2
    /\ \A c \in DOMAIN conns :
           conns'[c] # conns[c] =>
               \E r \in DOMAIN req :
                   /\ req'[r] # req[r]
                   /\ req[r].cid = c \/ req'[r].cid = c
    /\ UNCHANGED config

\* C19: under any interleaving of concurrent requests each request owns its
\* connection from connect to close: no connection is used by a request
\* other than the one that opened it, none is used after it was closed, a
\* request opens at most one connection and makes at most one execute
\* attempt, and no step of a request changes state that another request
\* holds.
C19_RequestOwnsItsConnection ==
    []ConnectionsAreOwned /\ [][StepIsOfOneRequest]_vars

\* Two requests are in flight together, each on its own open connection.
C19_Witness ==
    \E r1, r2 \in DOMAIN req :
        /\ r1 # r2
        /\ req[r1].pc = "executing" /\ req[r1].surface = "raw"
        /\ req[r2].pc = "executing" /\ req[r2].surface = "phrase"
        /\ req[r1].cid # 0 /\ conns[req[r1].cid].state = "open"
        /\ req[r2].cid # 0 /\ conns[req[r2].cid].state = "open"

====
